---- MODULE Spec2Model ----
(***************************************************************************)
(* Points ledger and coupon redemption of the Kerala Connect backend.      *)
(*                                                                         *)
(* The state is the content of the MongoDB collections the handlers use    *)
(* (users' points, pointstransactions, coupons, couponredemptions) plus    *)
(* one record per in-flight HTTP request holding the Mongoose documents    *)
(* that request has loaded.  Every `await` on the database is one step of  *)
(* the handler action, so requests interleave exactly where Node.js lets   *)
(* them.  A document loaded by a request is a private copy: save() writes  *)
(* the copy's modified paths back with $set, whatever was stored since.    *)
(*                                                                         *)
(* Around the ledger, the handlers that earn points (login, comments,      *)
(* likes, follows) with the users' and posts' fields they write, and the   *)
(* rate limiter in front of the authentication routes.                     *)
(*                                                                         *)
(* Model.create() and save() run the schema's validators before writing.  *)
(* A path declared `required` that is absent from the document makes the   *)
(* call reject with a ValidationError and nothing is written.  Mongoose    *)
(* runs validation before the schema's own pre('save') hooks.              *)
(***************************************************************************)
EXTENDS Integers, Sequences, FiniteSets, TLC

VARIABLES
    points,       \* users collection: points of every account
    ledger,       \* pointstransactions collection, in insertion order
    coupon,       \* coupons collection: one document per coupon
    redemptions,  \* couponredemptions collection, in insertion order
    req,          \* the in-flight requests, one record per connection
    now,          \* the clock (new Date()), in days
    debited,      \* history: redemption debits written to each account
    users,        \* users collection: lastActive, following, followers, __v
    posts,        \* posts collection: author and likes of every post
    attempts,     \* authRateLimit's Map of attempts, one per guarded route
    clock,        \* Date.now() as the rate limiter reads it, in minutes
    admitted      \* history: the requests authRateLimit passed on, by IP

\* What the social handlers and the rate limiter add to the ledger's state
social == <<users, posts, attempts, clock, admitted>>

vars == <<points, ledger, coupon, redemptions, req, now, debited, social>>

----------------------------------------------------------------------------
(* Bounds of the model *)

MaxPoints == 12
MaxTime == 2
FirstDay == 1

MaxClock == 3
MaxVersion == 3

Users == {"u1", "u2"}
Posts == {"p1"}
IPs == {"ip1", "ip2"}
Coupons == {"c1", "c2"}
Conns == {"r1", "r2"}
Codes == {"K1", "K2"}
NULL == "null"

----------------------------------------------------------------------------
(* Program constants *)

PostCreatedPoints == 5
CheckInPoints == 10
PostLikedPoints == 2
PostUnlikePoints == 2
FollowPoints == 5
FollowedPoints == 10
DailyLoginPoints == 1
CommentPostedPoints == 1
RedemptionTTL == 30
DefaultPoints == 0

----------------------------------------------------------------------------
(* Error messages, as sequences of words; includes() is case-sensitive *)

MsgNotValid == <<"Coupon", "is", "not", "currently", "valid">>
MsgAlready(n) ==
    <<"You", "have", "already", "redeemed", "this", "coupon", ToString(n), "time(s)">>
MsgInsufficientRedeem == <<"Insufficient", "points", "to", "redeem", "this", "coupon">>
MsgInsufficient == <<"Insufficient", "points">>
MsgValidation(model) == <<model, "validation", "failed">>
MsgDuplicateKey == <<"E11000", "duplicate", "key", "error">>
MsgCouponNotFound == <<"Coupon", "not", "found">>
MsgFailedRedeem == <<"Failed", "to", "redeem", "coupon">>
MsgFailed == <<"Failed">>
MsgActiveNotFound == <<"Active", "redemption", "not", "found">>
MsgRedemptionNotFound == <<"Redemption", "not", "found">>
MsgExpired == <<"Redemption", "has", "expired">>
MsgFailedCoupons == <<"Failed", "to", "get", "available", "coupons">>
MsgInvalidCredentials == <<"Invalid", "credentials">>
MsgPostNotFound == <<"Post", "not", "found">>
MsgAlreadyLiked == <<"Post", "already", "liked", "by", "this", "user">>
MsgNotLiked == <<"Post", "not", "liked", "by", "user">>
MsgVersionError == <<"VersionError">>
MsgFollowSelf == <<"Cannot", "follow", "yourself">>
MsgUnfollowSelf == <<"Cannot", "unfollow", "yourself">>
MsgUserNotFound == <<"User", "not", "found">>
MsgAlreadyFollowing == <<"Already", "following", "this", "user">>
MsgNotFollowing == <<"Not", "following", "this", "user">>
MsgNone == <<>>

Includes(msg, pat) ==
    \E i \in 1..Len(msg) :
        /\ i + Len(pat) - 1 <= Len(msg)
        /\ SubSeq(msg, i, i + Len(pat) - 1) = pat

\* redeemCoupon's catch block: which errors are answered 400 with their message
IsClientError(msg) ==
    \/ Includes(msg, <<"insufficient">>)
    \/ Includes(msg, <<"already", "redeemed">>)
    \/ Includes(msg, <<"not", "currently", "valid">>)

----------------------------------------------------------------------------
(* Schemas *)

RequiredOk_Skipped(doc, paths) == TRUE

\* Mongoose's `required` validator over the paths a schema declares required
RequiredOk(doc, paths) == paths \subseteq DOMAIN doc

RedemptionRequired ==
    {"coupon", "user", "pointsSpent", "redeemedAt", "redemptionCode", "expiresAt"}

TransactionRequired ==
    {"user", "points", "type", "reason", "balanceAfter", "timestamp"}

\* couponRedemptionSchema: validation of a document about to be written
ValidRedemption(doc) ==
    /\ RequiredOk(doc, RedemptionRequired)
    /\ "pointsSpent" \in DOMAIN doc => doc.pointsSpent >= 1
    /\ doc.status \in {"active", "used", "expired"}

\* pointsTransactionSchema: validation of a document about to be written
ValidTransaction(doc) ==
    /\ RequiredOk(doc, TransactionRequired)
    /\ "points" \in DOMAIN doc => doc.points # 0
    /\ doc.type \in {"earned", "spent", "bonus", "penalty"}
    /\ "balanceAfter" \in DOMAIN doc => doc.balanceAfter >= 0

\* userSchema.points: min 0
ValidUser(p) == p >= 0

\* The documents the code hands to create(), with the schema defaults applied.
\* A path the code does not set and the schema gives no default is absent.
NewRedemption(c, u, cost, t) ==
    [coupon |-> c, user |-> u, pointsSpent |-> cost, redeemedAt |-> t,
     status |-> "active"]

NewTransaction(u, p, type) ==
    [user |-> u, points |-> p, type |-> type, reason |-> "reason", timestamp |-> "Date"]

\* pre('save') hook of couponRedemptionSchema, run after validation
PreSaveRedemption(doc, code) ==
    IF "redemptionCode" \notin DOMAIN doc THEN ("redemptionCode" :> code) @@ doc ELSE doc

CodeTaken(code) ==
    \E i \in 1..Len(redemptions) :
        "redemptionCode" \in DOMAIN redemptions[i] /\ redemptions[i].redemptionCode = code

\* What CouponRedemption.create(doc) answers
CreateOutcome(doc, code) ==
    IF ~ValidRedemption(doc) THEN "ValidationError"
    ELSE IF CodeTaken(PreSaveRedemption(doc, code).redemptionCode) THEN "DuplicateKey"
    ELSE "ok"

Persisted_Always(doc, code) == Append(redemptions, PreSaveRedemption(doc, code))

\* The couponredemptions collection after CouponRedemption.create(doc)
Persisted(doc, code) ==
    IF CreateOutcome(doc, code) = "ok"
    THEN Append(redemptions, PreSaveRedemption(doc, code))
    ELSE redemptions

\* CouponRedemption.find({user})
RecordsOf(u) == {i \in 1..Len(redemptions) : redemptions[i].user = u}

\* CouponRedemption.countDocuments({coupon, user})
countDocuments(c, u) ==
    Cardinality({i \in 1..Len(redemptions) :
                    redemptions[i].coupon = c /\ redemptions[i].user = u})

isCurrentlyValid_Always(doc, t) == TRUE

\* couponSchema.virtual('isCurrentlyValid')
isCurrentlyValid(doc, t) ==
    /\ doc.isActive
    /\ t >= doc.validFrom
    /\ t <= doc.validUntil
    /\ ("total" \notin DOMAIN doc \/ doc.totalRedemptions < doc.total)

Insufficient_Off(docPoints, amount) == FALSE

\* userSchema.methods.deductPoints: the guard
Insufficient(docPoints, amount) == docPoints < amount

\* The users collection after save() of a user document whose points are p
SavedPoints(u, p) == IF ValidUser(p) THEN [points EXCEPT ![u] = p] ELSE points

----------------------------------------------------------------------------
(* The coupons an administrator may have put in the catalogue *)

\* usageLimit.total is null (absent) for an unlimited coupon
Unlimited(cost, perUser, active, until) ==
    [pointsCost |-> cost, perUser |-> perUser, isActive |-> active,
     validFrom |-> 0, validUntil |-> until, totalRedemptions |-> 0,
     uniqueUsers |-> 0]

Capped(cost, total, perUser, active, until) ==
    ("total" :> total) @@ Unlimited(cost, perUser, active, until)

\* c1 is valid on the first day only, c2 on every day of the model
Catalogues ==
    { [c \in Coupons |-> IF c = "c1" THEN a ELSE b] :
        a \in {Capped(5, 1, 1, TRUE, FirstDay), Unlimited(5, 2, TRUE, FirstDay)},
        b \in {Unlimited(10, 1, TRUE, MaxTime + 1),
               Capped(5, 1, 1, FALSE, MaxTime + 1)} }

\* One of them, where the coupons do not matter
OneCatalogue ==
    [c \in Coupons |-> IF c = "c1" THEN Unlimited(5, 2, TRUE, FirstDay)
                                   ELSE Unlimited(10, 1, TRUE, MaxTime + 1)]

Idle ==
    [kind |-> "idle", user |-> NULL, coupon |-> NULL, pc |-> "idle",
     amount |-> 0, userDoc |-> 0, couponDoc |-> <<>>, red |-> 0,
     status |-> 0, error |-> MsgNone,
     \* the redemption code asked for, the Redemption documents loaded (by
     \* position in the collection) and the modified paths save() will $set
     code |-> NULL, docs |-> <<>>, mods |-> <<>>,
     \* `now` as a method captured it, and what the method returned
     at |-> 0, result |-> <<>>,
     \* history, for stating properties: the redeem requests that had arrived
     \* but read nothing yet when this one arrived, those that were already
     \* answered, the balance and the coupon count the handler loaded, and
     \* the error its catch block caught
     with |-> {}, after |-> {}, loaded |-> 0, loadedTotal |-> 0,
     thrown |-> MsgNone,
     \* history: why the coupon was not redeemable when canBeRedeemedBy ran
     cause |-> {},
     \* the social handlers: the other user or the post named in the URL, the
     \* User and Post documents loaded, the caller's address
     target |-> NULL, post |-> NULL, me |-> <<>>, other |-> <<>>,
     postDoc |-> <<>>, ip |-> NULL, password |-> NULL,
     \* history: the lastActive a login found stored
     lastLogin |-> 0]

\* No entry for an address in authRateLimit's Map
NoAttempts == [count |-> 0, firstAttempt |-> 0]

\* A user document's fields besides points, as the schema's defaults set them
NewUser(day) == [lastActive |-> day, following |-> <<>>, followers |-> <<>>, v |-> 0]

\* A post of u1 with the given likes
NewPost(likes) == [author |-> "u1", likes |-> likes, v |-> 0]

\* The users and posts stored, an empty attempts Map
SeededSocial(storedUsers, storedPosts) ==
    /\ users \in storedUsers
    /\ posts \in storedPosts
    /\ attempts = [ip \in IPs |-> NoAttempts]
    /\ clock = 0
    /\ admitted = [ip \in IPs |-> <<>>]

\* Nobody follows anybody, one post of u1 without likes
InitSocial ==
    SeededSocial({[u \in Users |-> NewUser(FirstDay)]},
                 {[p \in Posts |-> NewPost(<<>>)]})

\* The ledger's collections with the given balances and no redemptions
InitLedger(balances) ==
    /\ points \in [Users -> balances]
    /\ ledger = <<>>
    /\ coupon = OneCatalogue
    /\ redemptions = <<>>
    /\ req = [r \in Conns |-> Idle]
    /\ now = FirstDay
    /\ debited = [u \in Users |-> 0]

Init ==
    /\ points = [u \in Users |-> DefaultPoints]
    /\ ledger = <<>>
    /\ coupon \in Catalogues
    /\ redemptions = <<>>
    /\ req = [r \in Conns |-> Idle]
    /\ now = FirstDay
    /\ debited = [u \in Users |-> 0]
    /\ InitSocial

----------------------------------------------------------------------------
(* Requests *)

Answer(r, status, msg) ==
    [req EXCEPT ![r].pc = "done", ![r].status = status, ![r].error = msg]

Caught(r, status, msg, err) ==
    [req EXCEPT ![r].pc = "done", ![r].status = status, ![r].error = msg,
                ![r].thrown = err]

\* redeemCoupon's catch block
RedeemCatch(r, msg) ==
    IF IsClientError(msg) THEN Caught(r, 400, msg, msg)
    ELSE Caught(r, 500, MsgFailedRedeem, msg)

\* authenticateToken, then the route's handler starts: a redeem request
RequestRedeem(r, u, c) ==
    /\ req[r].kind = "idle"
    /\ req' = [req EXCEPT ![r] =
                 [Idle EXCEPT !.kind = "redeemCoupon", !.user = u, !.coupon = c,
                              !.pc = "findUser",
                              !.with = {o \in Conns \ {r} :
                                          /\ req[o].kind = "redeemCoupon"
                                          /\ req[o].pc = "findUser"},
                              !.after = {o \in Conns \ {r} :
                                          /\ req[o].kind = "redeemCoupon"
                                          /\ req[o].pc = "done"}]]
    /\ UNCHANGED <<points, ledger, coupon, redemptions, now, debited>>
    /\ UNCHANGED social

\* authenticateToken loads req.user; createPost and checkInAtPlace grant to it
RequestGrant(r, u, kind) ==
    /\ req[r].kind = "idle"
    /\ kind \in {"createPost", "checkInAtPlace"}
    /\ points[u] + CheckInPoints <= MaxPoints \/ kind = "createPost"
    /\ points[u] + PostCreatedPoints <= MaxPoints
    /\ req' = [req EXCEPT ![r] = [Idle EXCEPT !.kind = kind, !.user = u,
                                              !.userDoc = points[u],
                                              !.loaded = points[u],
                                              !.pc = "addPoints"]]
    /\ UNCHANGED <<points, ledger, coupon, redemptions, now, debited>>
    /\ UNCHANGED social

\* The response is delivered and the connection is free again
Respond(r) ==
    /\ req[r].pc = "done"
    /\ req' = [req EXCEPT ![r] = Idle]
    /\ UNCHANGED <<points, ledger, coupon, redemptions, now, debited>>
    /\ UNCHANGED social

Tick ==
    /\ now < MaxTime
    /\ now' = now + 1
    /\ UNCHANGED <<points, ledger, coupon, redemptions, req, debited>>
    /\ UNCHANGED social

----------------------------------------------------------------------------
(* userSchema.methods.addPoints, as createPost and checkInAtPlace call it  *)
(* on req.user.  Two awaits: the user's save(), then the ledger's create() *)

\* The pointstransactions collection after PointsTransaction.create(doc)
Logged(doc) == IF ValidTransaction(doc) THEN Append(ledger, doc) ELSE ledger

\* await req.user.addPoints(amount, reason), answered ok when it returns and
\* by the handler's catch block when it throws
addPointsTo(r, u, amount, ok, caught) ==
    LET q == req[r]
    IN
    /\ \/ /\ q.pc = "addPoints"
          \* this.points += points; await this.save()
          /\ points' = SavedPoints(u, q.userDoc + amount)
          /\ req' = [req EXCEPT ![r].userDoc = q.userDoc + amount,
                                ![r].pc = "logGrant"]
          /\ UNCHANGED ledger
       \/ /\ q.pc = "logGrant"
          \* await PointsTransaction.create({user, points, type: 'earned', ...})
          /\ LET doc == NewTransaction(u, amount, "earned") IN
             /\ ledger' = Logged(doc)
             /\ req' = IF ValidTransaction(doc)
                       THEN Answer(r, ok, MsgNone)
                       ELSE Caught(r, caught, MsgFailed,
                                   MsgValidation("PointsTransaction"))
          /\ UNCHANGED points
    /\ UNCHANGED <<coupon, redemptions, now, debited>>
    /\ UNCHANGED social

\* The same for the request's own account
addPoints(r, amount, ok, caught) == addPointsTo(r, req[r].user, amount, ok, caught)

\* createPost: Post.create, then the grant; a ValidationError is answered 400
createPost(r) ==
    /\ req[r].kind = "createPost"
    /\ addPoints(r, PostCreatedPoints, 201, 400)

\* checkInAtPlace: Place.findById, then the grant; any error is answered 500
checkInAtPlace(r) ==
    /\ req[r].kind = "checkInAtPlace"
    /\ addPoints(r, CheckInPoints, 200, 500)

----------------------------------------------------------------------------
(* redeemCoupon: one step per await of the handler and of the model        *)
(* methods it calls (coupon.redeemBy, user.deductPoints)                   *)

redeemCoupon(r) ==
    LET q == req[r]
        u == q.user
        c == q.coupon
        cd == q.couponDoc
    IN
    /\ q.kind = "redeemCoupon"
    /\ CASE q.pc = "findUser" ->
            \* const user = await User.findById(userId)
            /\ req' = [req EXCEPT ![r].userDoc = points[u], ![r].loaded = points[u],
                                  ![r].pc = "findCoupon"]
            /\ UNCHANGED <<points, ledger, coupon, redemptions, debited>>
         [] q.pc = "findCoupon" ->
            \* const coupon = await Coupon.findById(id); the 404; then redeemBy
            \* enters canBeRedeemedBy, which tests isCurrentlyValid at once
            /\ req' = IF c \notin Coupons \/ ~coupon[c].isActive
                        THEN Answer(r, 404, MsgCouponNotFound)
                      ELSE IF ~isCurrentlyValid(coupon[c], now)
                        THEN RedeemCatch(r, MsgNotValid)
                      ELSE [req EXCEPT ![r].couponDoc = coupon[c],
                                       ![r].loadedTotal = coupon[c].totalRedemptions,
                                       ![r].pc = "countDocuments"]
            /\ UNCHANGED <<points, ledger, coupon, redemptions, debited>>
         [] q.pc = "countDocuments" ->
            \* userRedemptions = await countDocuments(...); the per-user cap;
            \* back in redeemBy, the test of userPoints
            /\ req' = IF countDocuments(c, u) >= cd.perUser
                        THEN RedeemCatch(r, MsgAlready(cd.perUser))
                      ELSE IF q.userDoc < cd.pointsCost
                        THEN RedeemCatch(r, MsgInsufficientRedeem)
                      ELSE [req EXCEPT ![r].pc = "create"]
            /\ UNCHANGED <<points, ledger, coupon, redemptions, debited>>
         [] q.pc = "create" ->
            \* const redemption = await CouponRedemption.create({...})
            /\ \E code \in Codes :
                 LET doc == NewRedemption(c, u, cd.pointsCost, now)
                     out == CreateOutcome(doc, code)
                 IN
                 /\ redemptions' = Persisted(doc, code)
                 /\ req' = IF out = "ValidationError"
                             THEN RedeemCatch(r, MsgValidation("CouponRedemption"))
                           ELSE IF out = "DuplicateKey"
                             THEN RedeemCatch(r, MsgDuplicateKey)
                           ELSE [req EXCEPT ![r].red = Len(redemptions) + 1,
                                            ![r].pc = "countFirst"]
            /\ UNCHANGED <<points, ledger, coupon, debited>>
         [] q.pc = "countFirst" ->
            \* isFirstRedemption = await countDocuments(...) === 1; the stats of
            \* the loaded coupon document are incremented
            /\ req' = [req EXCEPT
                          ![r].couponDoc.totalRedemptions = cd.totalRedemptions + 1,
                          ![r].couponDoc.uniqueUsers =
                              IF countDocuments(c, u) = 1 THEN cd.uniqueUsers + 1
                              ELSE cd.uniqueUsers,
                          ![r].pc = "saveCoupon"]
            /\ UNCHANGED <<points, ledger, coupon, redemptions, debited>>
         [] q.pc = "saveCoupon" ->
            \* await this.save(): the loaded document's stats are written back;
            \* back in the handler, deductPoints tests and decrements user.points
            /\ coupon' = [coupon EXCEPT ![c].totalRedemptions = cd.totalRedemptions,
                                         ![c].uniqueUsers = cd.uniqueUsers]
            /\ req' = IF Insufficient(q.userDoc, coupon[c].pointsCost)
                        THEN RedeemCatch(r, MsgInsufficient)
                      ELSE [req EXCEPT ![r].userDoc = q.userDoc - cd.pointsCost,
                                       ![r].pc = "saveUser"]
            /\ UNCHANGED <<points, ledger, redemptions, debited>>
         [] q.pc = "saveUser" ->
            \* await this.save() in deductPoints
            /\ points' = SavedPoints(u, q.userDoc)
            /\ debited' = [debited EXCEPT ![u] = debited[u] + 1]
            /\ req' = [req EXCEPT ![r].pc = "logDebit"]
            /\ UNCHANGED <<ledger, coupon, redemptions>>
         [] q.pc = "logDebit" ->
            \* await PointsTransaction.create({user, points, type: 'spent', ...})
            /\ LET doc == NewTransaction(u, cd.pointsCost, "spent") IN
                 /\ ledger' = Logged(doc)
                 /\ req' = IF ValidTransaction(doc)
                             THEN [req EXCEPT ![r].pc = "saveRedemption"]
                           ELSE RedeemCatch(r, MsgValidation("PointsTransaction"))
            /\ UNCHANGED <<points, coupon, redemptions, debited>>
         [] q.pc = "saveRedemption" ->
            \* redemption.expiresAt = now + 30 days; await redemption.save()
            /\ redemptions' = [redemptions EXCEPT ![q.red] =
                                  ("expiresAt" :> now + RedemptionTTL) @@ redemptions[q.red]]
            /\ req' = Answer(r, 200, MsgNone)
            /\ UNCHANGED <<points, ledger, coupon, debited>>
         [] OTHER -> FALSE
    /\ UNCHANGED now
    /\ UNCHANGED social

Next ==
    \/ \E r \in Conns, u \in Users, c \in Coupons : RequestRedeem(r, u, c)
    \/ \E r \in Conns, u \in Users, k \in {"createPost", "checkInAtPlace"} :
          RequestGrant(r, u, k)
    \/ \E r \in Conns : createPost(r)
    \/ \E r \in Conns : checkInAtPlace(r)
    \/ \E r \in Conns : redeemCoupon(r)
    \/ \E r \in Conns : Respond(r)
    \/ Tick

Spec == Init /\ [][Next]_vars

----------------------------------------------------------------------------
(* The redeem requests alone, on any day, from the balances the grants of *)
(* Spec leave: a balance is a multiple of a grant, and no ledger entry     *)
(* goes with it.                                                           *)

InitRedeem ==
    /\ points \in [Users -> {p \in 0..MaxPoints : p % PostCreatedPoints = 0}]
    /\ ledger = <<>>
    /\ coupon \in Catalogues
    /\ redemptions = <<>>
    /\ req = [r \in Conns |-> Idle]
    /\ now \in FirstDay..MaxTime
    /\ debited = [u \in Users |-> 0]
    /\ InitSocial

NextRedeem ==
    \/ \E r \in Conns, u \in Users, c \in Coupons : RequestRedeem(r, u, c)
    \/ \E r \in Conns : redeemCoupon(r)
    \/ \E r \in Conns : Respond(r)

SpecRedeem == InitRedeem /\ [][NextRedeem]_vars

----------------------------------------------------------------------------
(* A database that holds documents from before the server started: coupons *)
(* with any validity window, and one Redemption record of account u1 for   *)
(* coupon c1, which that coupon's stats count.                             *)

SeededRedemption(c, u, code, expires) ==
    [coupon |-> c, user |-> u, pointsSpent |-> PostCreatedPoints, redeemedAt |-> 0,
     status |-> "active", redemptionCode |-> code, expiresAt |-> expires]

\* A coupon document with some of its paths set otherwise
With(doc, paths) == paths @@ doc

SeededCounts(n) == [totalRedemptions |-> n, uniqueUsers |-> n]

\* c1: capped at one redemption, or one per user and valid on the first day
\* only, or not valid before the last day; c2: inactive, or featured
SeededCatalogues(n) ==
    { [c \in Coupons |-> IF c = "c1" THEN With(With(a, SeededCounts(n)), [isFeatured |-> FALSE])
                         ELSE b] :
        a \in {Capped(5, 1, 2, TRUE, MaxTime + 1),
               Unlimited(5, 1, TRUE, FirstDay),
               With(Unlimited(5, 2, TRUE, MaxTime + 1), [validFrom |-> MaxTime])},
        b \in {With(Unlimited(10, 1, FALSE, MaxTime + 1), [isFeatured |-> FALSE]),
               With(Unlimited(10, 1, TRUE, MaxTime + 1), [isFeatured |-> TRUE]),
               With(Unlimited(10, 1, TRUE, MaxTime + 1), [isFeatured |-> FALSE])} }

SeededInit(grant) ==
    /\ points \in [Users -> {p \in 0..MaxPoints : p % grant = 0}]
    /\ ledger = <<>>
    /\ redemptions \in {<<>>, <<SeededRedemption("c1", "u1", "K1", FirstDay + RedemptionTTL)>>}
    /\ coupon \in SeededCatalogues(Len(redemptions))
    /\ req = [r \in Conns |-> Idle]
    /\ now = FirstDay
    /\ debited = [u \in Users |-> IF u = "u1" THEN Len(redemptions) ELSE 0]
    /\ InitSocial

InitCatalog == SeededInit(CheckInPoints)

\* Redeem requests for any id, also one that names no coupon
NextCatalog ==
    \/ \E r \in Conns, u \in Users, c \in Coupons \cup {NULL} : RequestRedeem(r, u, c)
    \/ \E r \in Conns : redeemCoupon(r)
    \/ \E r \in Conns : Respond(r)
    \/ Tick

SpecCatalog == InitCatalog /\ [][NextCatalog]_vars

----------------------------------------------------------------------------
(* Redemptions stored before the server started, and the handlers that     *)
(* read and use them: getRedemptionByCode, getMyRedemptions and             *)
(* markRedemptionAsUsed.  checkExpiration calls save() without awaiting    *)
(* it: the handler answers first and the write lands later.                *)

\* expiresAt of a stored redemption: already past, the first day, far ahead
Expiries == {FirstDay - 1, FirstDay, FirstDay + RedemptionTTL}

InitUse ==
    /\ points = [u \in Users |-> DefaultPoints]
    /\ ledger = <<>>
    /\ redemptions \in
          { <<SeededRedemption("c1", "u1", "K1", e)>> : e \in Expiries }
          \cup { <<SeededRedemption("c1", "u1", "K1", e1),
                   SeededRedemption("c1", "u1", "K2", e2)>> :
                     e1 \in Expiries, e2 \in Expiries }
    /\ coupon = [c \in Coupons |->
                    With(Unlimited(PostCreatedPoints, 2, TRUE, MaxTime + 1),
                         SeededCounts(IF c = "c1" THEN Len(redemptions) ELSE 0))]
    /\ req = [r \in Conns |-> Idle]
    /\ now = FirstDay
    /\ debited = [u \in Users |-> IF u = "u1" THEN Len(redemptions) ELSE 0]
    /\ InitSocial

\* authenticateToken, then the route's handler starts with :code
RequestUse(r, kind, u, code) ==
    /\ req[r].kind = "idle"
    /\ kind \in {"markRedemptionAsUsed", "getRedemptionByCode", "getMyRedemptions"}
    /\ req' = [req EXCEPT ![r] = [Idle EXCEPT !.kind = kind, !.user = u,
                                              !.code = code, !.pc = "find"]]
    /\ UNCHANGED <<points, ledger, coupon, redemptions, now, debited>>
    /\ UNCHANGED social

\* CouponRedemption.findOne({redemptionCode: code, status: 'active'})
FindActive(code) ==
    {i \in 1..Len(redemptions) :
        redemptions[i].redemptionCode = code /\ redemptions[i].status = "active"}

\* CouponRedemption.findOne({redemptionCode: code, user: userId})
FindOwned(code, u) ==
    {i \in 1..Len(redemptions) :
        redemptions[i].redemptionCode = code /\ redemptions[i].user = u}

\* couponRedemptionSchema.methods.checkExpiration: the paths it modifies
checkExpiration(doc, t) ==
    IF doc.status = "active" /\ t > doc.expiresAt THEN [status |-> "expired"] ELSE <<>>

\* couponRedemptionSchema.methods.markAsUsed: the paths it modifies
markAsUsed(doc, t, usageDetails) ==
    [status |-> "used", usedAt |-> t, usageDetails |-> usageDetails]

\* save() of the loaded documents whose modified paths are in flight: one
\* document's paths are written with $set over whatever is stored
SaveOne(r, i) ==
    /\ i \in DOMAIN req[r].mods
    /\ redemptions' = [redemptions EXCEPT ![i] = req[r].mods[i] @@ @]

Unsaved(r, i) == [j \in DOMAIN req[r].mods \ {i} |-> req[r].mods[j]]

markRedemptionAsUsed(r) ==
    LET q == req[r] IN
    /\ q.kind = "markRedemptionAsUsed"
    /\ \/ /\ q.pc = "find"
          \* findOne; the 404; the test of expiresAt; markAsUsed up to its save()
          /\ req' =
               IF FindActive(q.code) = {} THEN Answer(r, 404, MsgActiveNotFound)
               ELSE LET i == CHOOSE j \in FindActive(q.code) : TRUE
                        doc == redemptions[i]
                    IN IF now > doc.expiresAt THEN Answer(r, 400, MsgExpired)
                       ELSE [req EXCEPT
                               ![r].mods = i :> markAsUsed(doc, now, r),
                               ![r].docs = i :> (markAsUsed(doc, now, r) @@ doc),
                               ![r].pc = "save"]
          /\ UNCHANGED redemptions
       \/ /\ q.pc = "save"
          \* await this.save() in markAsUsed, then the answer
          /\ \E i \in DOMAIN q.mods : SaveOne(r, i)
          /\ req' = [Answer(r, 200, MsgNone) EXCEPT ![r].mods = <<>>]
    /\ UNCHANGED <<points, ledger, coupon, now, debited>>
    /\ UNCHANGED social

\* The rest of a reading handler: the answer, and the saves left in flight
Fetched(r, found) ==
    LET loaded == [i \in found |-> checkExpiration(redemptions[i], now) @@ redemptions[i]]
        flips == {i \in found : checkExpiration(redemptions[i], now) # <<>>}
    IN [req EXCEPT ![r].docs = loaded,
                   ![r].mods = [i \in flips |-> checkExpiration(redemptions[i], now)],
                   ![r].status = 200,
                   ![r].pc = IF flips = {} THEN "done" ELSE "saving"]

Saving(r) ==
    /\ req[r].pc = "saving"
    /\ \E i \in DOMAIN req[r].mods :
          /\ SaveOne(r, i)
          /\ req' = [req EXCEPT ![r].mods = Unsaved(r, i),
                                ![r].pc = IF Unsaved(r, i) = <<>> THEN "done"
                                          ELSE "saving"]

getRedemptionByCode(r) ==
    LET q == req[r] IN
    /\ q.kind = "getRedemptionByCode"
    /\ \/ /\ q.pc = "find"
          \* findOne; the 404; redemption.checkExpiration(); res.json
          /\ req' = IF FindOwned(q.code, q.user) = {}
                      THEN Answer(r, 404, MsgRedemptionNotFound)
                    ELSE Fetched(r, FindOwned(q.code, q.user))
          /\ UNCHANGED redemptions
       \/ Saving(r)
    /\ UNCHANGED <<points, ledger, coupon, now, debited>>
    /\ UNCHANGED social

getMyRedemptions(r) ==
    LET q == req[r] IN
    /\ q.kind = "getMyRedemptions"
    /\ \/ /\ q.pc = "find"
          \* find({user}); checkExpiration() on each; res.json
          /\ req' = Fetched(r, RecordsOf(q.user))
          /\ UNCHANGED redemptions
       \/ Saving(r)
    /\ UNCHANGED <<points, ledger, coupon, now, debited>>
    /\ UNCHANGED social

NextUse ==
    \/ \E r \in Conns, u \in Users, code \in Codes,
          k \in {"markRedemptionAsUsed", "getRedemptionByCode", "getMyRedemptions"} :
          RequestUse(r, k, u, code)
    \/ \E r \in Conns : markRedemptionAsUsed(r)
    \/ \E r \in Conns : getRedemptionByCode(r)
    \/ \E r \in Conns : getMyRedemptions(r)
    \/ \E r \in Conns : Respond(r)
    \/ Tick

SpecUse == InitUse /\ [][NextUse]_vars

----------------------------------------------------------------------------
(* The catalogue's queries: coupon.canBeRedeemedBy(userId) called on a     *)
(* loaded coupon, and getAvailableCoupons with Coupon.getAvailableForUser  *)

InitQuery == SeededInit(PostCreatedPoints)

\* Why a coupon document is not redeemable by u at time t (history)
Causes(doc, c, u, t) ==
    {k \in {"inactive", "window", "cap", "perUser"} :
        \/ k = "inactive" /\ ~doc.isActive
        \/ k = "window" /\ (t < doc.validFrom \/ t > doc.validUntil)
        \/ k = "cap" /\ "total" \in DOMAIN doc /\ doc.totalRedemptions >= doc.total
        \/ k = "perUser" /\ countDocuments(c, u) >= doc.perUser}

\* const coupon = await Coupon.findById(id), then coupon.canBeRedeemedBy(userId)
CallCanBeRedeemedBy(r, u, c) ==
    /\ req[r].kind = "idle"
    /\ req' = [req EXCEPT ![r] = [Idle EXCEPT !.kind = "canBeRedeemedBy", !.user = u,
                                              !.coupon = c, !.couponDoc = coupon[c],
                                              !.pc = "valid"]]
    /\ UNCHANGED <<points, ledger, coupon, redemptions, now, debited>>
    /\ UNCHANGED social

canBeRedeemedBy(r) ==
    LET q == req[r]
        cd == q.couponDoc
    IN
    /\ q.kind = "canBeRedeemedBy"
    /\ \/ /\ q.pc = "valid"
          \* if (!this.isCurrentlyValid) return {canRedeem: false, reason}
          /\ req' = IF ~isCurrentlyValid(cd, now)
                      THEN [req EXCEPT ![r].result = [canRedeem |-> FALSE,
                                                      reason |-> MsgNotValid],
                                       ![r].cause = Causes(cd, q.coupon, q.user, now),
                                       ![r].pc = "done"]
                    ELSE [req EXCEPT ![r].cause = Causes(cd, q.coupon, q.user, now),
                                     ![r].pc = "count"]
       \/ /\ q.pc = "count"
          \* userRedemptions = await countDocuments(...); the per-user test
          /\ req' = [req EXCEPT
                       ![r].result =
                           IF countDocuments(q.coupon, q.user) >= cd.perUser
                           THEN [canRedeem |-> FALSE, reason |-> MsgAlready(cd.perUser)]
                           ELSE [canRedeem |-> TRUE],
                       ![r].pc = "done"]
    /\ UNCHANGED <<points, ledger, coupon, redemptions, now, debited>>
    /\ UNCHANGED social

\* authenticateToken, then getAvailableCoupons starts
RequestAvailable(r, u) ==
    /\ req[r].kind = "idle"
    /\ req' = [req EXCEPT ![r] = [Idle EXCEPT !.kind = "getAvailableCoupons",
                                              !.user = u, !.pc = "findUser"]]
    /\ UNCHANGED <<points, ledger, coupon, redemptions, now, debited>>
    /\ UNCHANGED social

\* Coupon.find({isActive: true, validFrom: {$lte: now}, validUntil: {$gte: now},
\*              pointsCost: {$lte: userPoints}})
FindAvailable(t, userPoints) ==
    {c \in Coupons : /\ coupon[c].isActive = TRUE
                     /\ coupon[c].validFrom <= t
                     /\ coupon[c].validUntil >= t
                     /\ coupon[c].pointsCost <= userPoints}

\* .sort({isFeatured: -1, pointsCost: 1}): a may stand before b
SortsBefore(a, b) ==
    \/ coupon[a].isFeatured /\ ~coupon[b].isFeatured
    \/ /\ coupon[a].isFeatured = coupon[b].isFeatured
       /\ coupon[a].pointsCost <= coupon[b].pointsCost

\* The orders in which the query may answer the coupons of S
SortedLists(S) ==
    {l \in [1..Cardinality(S) -> S] :
        /\ \A i, j \in DOMAIN l : i # j => l[i] # l[j]
        /\ \A i, j \in DOMAIN l : i < j => SortsBefore(l[i], l[j])}

StillRedeemable_NoCap(doc, userCount) == userCount < doc.perUser

\* The callback of coupons.filter(...)
StillRedeemable(doc, userCount) ==
    /\ userCount < doc.perUser
    /\ ("total" \notin DOMAIN doc \/ doc.totalRedemptions < doc.total)

\* l.filter(keep), for a list without repetitions
RECURSIVE Filter(_, _)
Filter(l, keep) ==
    IF l = <<>> THEN <<>>
    ELSE (IF Head(l) \in keep THEN <<Head(l)>> ELSE <<>>) \o Filter(Tail(l), keep)

getAvailableCoupons(r) ==
    LET q == req[r]
        u == q.user
    IN
    /\ q.kind = "getAvailableCoupons"
    /\ \/ /\ q.pc = "findUser"
          \* const user = await User.findById(userId); in getAvailableForUser,
          \* const now = new Date()
          /\ req' = [req EXCEPT ![r].userDoc = points[u], ![r].loaded = points[u],
                                ![r].at = now, ![r].pc = "aggregate"]
       \/ /\ q.pc = "aggregate"
          \* mongoose.Types.ObjectId(userId), called without `new`: the ObjectId
          \* of the driver in use either builds the id or throws a TypeError
          /\ \/ req' = [req EXCEPT ![r].docs = [c \in Coupons |-> countDocuments(c, u)],
                                   ![r].pc = "find"]
             \/ req' = Caught(r, 500, MsgFailedCoupons, <<"TypeError">>)
       \/ /\ q.pc = "find"
          \* const coupons = await this.find(...).sort(...); coupons.filter(...)
          /\ \E l \in SortedLists(FindAvailable(q.at, q.userDoc)) :
                req' = [Answer(r, 200, MsgNone) EXCEPT
                          ![r].result =
                              Filter(l, {c \in Coupons :
                                           StillRedeemable(coupon[c], q.docs[c])})]
    /\ UNCHANGED <<points, ledger, coupon, redemptions, now, debited>>
    /\ UNCHANGED social

NextQuery ==
    \/ \E r \in Conns, u \in Users, c \in Coupons : CallCanBeRedeemedBy(r, u, c)
    \/ \E r \in Conns : canBeRedeemedBy(r)
    \/ \E r \in Conns, u \in Users : RequestAvailable(r, u)
    \/ \E r \in Conns : getAvailableCoupons(r)
    \/ \E r \in Conns : Respond(r)
    \/ Tick

SpecQuery == InitQuery /\ [][NextQuery]_vars

----------------------------------------------------------------------------
(* userSchema.methods.addPoints and deductPoints called on a loaded user   *)
(* document with any amount, as a caller of the model may                  *)

Amounts == {PostCreatedPoints, CheckInPoints}

\* const user = await User.findById(id), then user.addPoints / deductPoints
CallMethod(r, u, method, amount) ==
    /\ req[r].kind = "idle"
    /\ method \in {"addPoints", "deductPoints"}
    /\ method = "addPoints" => points[u] + amount <= MaxPoints
    /\ req' = [req EXCEPT ![r] = [Idle EXCEPT !.kind = method, !.user = u,
                                              !.amount = amount,
                                              !.userDoc = points[u],
                                              !.loaded = points[u],
                                              !.pc = "call"]]
    /\ UNCHANGED <<points, ledger, coupon, redemptions, now, debited>>
    /\ UNCHANGED social

UserMethod(r) ==
    LET q == req[r]
        u == q.user
    IN
    /\ q.kind \in {"addPoints", "deductPoints"}
    /\ CASE q.pc = "call" ->
            \* deductPoints: if (this.points < points) throw; this.points -= points
            \* addPoints: this.points += points
            /\ req' = IF q.kind = "deductPoints" /\ Insufficient(q.userDoc, q.amount)
                        THEN Caught(r, 0, MsgNone, MsgInsufficient)
                      ELSE [req EXCEPT ![r].userDoc =
                                          IF q.kind = "deductPoints"
                                          THEN q.userDoc - q.amount
                                          ELSE q.userDoc + q.amount,
                                       ![r].pc = "save"]
            /\ UNCHANGED <<points, ledger>>
         [] q.pc = "save" ->
            \* await this.save()
            /\ points' = SavedPoints(u, q.userDoc)
            /\ req' = IF ValidUser(q.userDoc)
                        THEN [req EXCEPT ![r].pc = "log"]
                      ELSE Caught(r, 0, MsgNone, MsgValidation("User"))
            /\ UNCHANGED ledger
         [] q.pc = "log" ->
            \* await PointsTransaction.create({...})
            /\ LET doc == NewTransaction(u, q.amount,
                              IF q.kind = "deductPoints" THEN "spent" ELSE "earned")
               IN
               /\ ledger' = Logged(doc)
               /\ req' = IF ValidTransaction(doc)
                           THEN Answer(r, 0, MsgNone)
                         ELSE Caught(r, 0, MsgNone, MsgValidation("PointsTransaction"))
            /\ UNCHANGED points
         [] OTHER -> FALSE
    /\ UNCHANGED <<coupon, redemptions, now, debited>>
    /\ UNCHANGED social

NextUser ==
    \/ \E r \in Conns, u \in Users, m \in {"addPoints", "deductPoints"}, a \in Amounts :
          CallMethod(r, u, m, a)
    \/ \E r \in Conns : UserMethod(r)
    \/ \E r \in Conns : Respond(r)

SpecUser == InitRedeem /\ [][NextUser]_vars

----------------------------------------------------------------------------
(* authRateLimit(maxAttempts, windowMinutes) in front of an authentication *)
(* route.  The middleware has no await: each request runs it in one step.  *)

MaxAttempts == 2
WindowMinutes == 2

Exhausted_Never(entry) == FALSE

\* userAttempts.count >= maxAttempts
Exhausted(entry) == entry.count >= MaxAttempts

\* now - value.firstAttempt > windowMs
Stale(entry, t) == entry.count > 0 /\ t - entry.firstAttempt > WindowMinutes

\* attempts.forEach(...): the entries older than the window are deleted
Cleaned(t) == [k \in IPs |-> IF Stale(attempts[k], t) THEN NoAttempts ELSE attempts[k]]

authRateLimit(r, ip) ==
    LET kept == Cleaned(clock)
        userAttempts == kept[ip]
        counted == IF userAttempts.count > 0
                   THEN [userAttempts EXCEPT !.count = @ + 1]
                   ELSE [count |-> 1, firstAttempt |-> clock]
    IN
    /\ req[r].kind = "idle"
    /\ IF userAttempts.count > 0 /\ Exhausted(userAttempts)
       THEN \* return res.status(429)
            /\ attempts' = kept
            /\ req' = [req EXCEPT ![r] = [Idle EXCEPT !.kind = "auth", !.ip = ip,
                                                      !.pc = "done", !.status = 429]]
            /\ UNCHANGED admitted
       ELSE \* userAttempts.count++ or attempts.set(ip, ...); next()
            /\ attempts' = [kept EXCEPT ![ip] = counted]
            /\ req' = [req EXCEPT ![r] = [Idle EXCEPT !.kind = "auth", !.ip = ip,
                                                      !.pc = "done",
                                                      !.result = <<"next">>]]
            /\ admitted' = [admitted EXCEPT ![ip] =
                               Append(@, [at |-> clock, count |-> counted.count])]
    /\ UNCHANGED <<points, ledger, coupon, redemptions, now, debited>>
    /\ UNCHANGED <<users, posts, clock>>

\* A minute passes
Elapse ==
    /\ clock < MaxClock
    /\ clock' = clock + 1
    /\ UNCHANGED <<points, ledger, coupon, redemptions, req, now, debited>>
    /\ UNCHANGED <<users, posts, attempts, admitted>>

\* The server has just started: no attempts yet
InitLimit == Init /\ coupon = OneCatalogue

NextLimit ==
    \/ \E r \in Conns, ip \in IPs : authRateLimit(r, ip)
    \/ \E r \in Conns : Respond(r)
    \/ Elapse

SpecLimit == InitLimit /\ [][NextLimit]_vars

----------------------------------------------------------------------------
(* Two earning events: login's daily bonus and a comment's points          *)

\* Accounts last active yesterday or today, nothing else stored
InitEarn ==
    /\ InitLedger({DefaultPoints})
    /\ SeededSocial([Users -> {NewUser(FirstDay - 1), NewUser(FirstDay)}],
                    {[p \in Posts |-> NewPost(<<>>)]})

\* validateLogin, then login starts
RequestLogin(r, u, password) ==
    /\ req[r].kind = "idle"
    /\ req' = [req EXCEPT ![r] = [Idle EXCEPT !.kind = "login", !.user = u,
                                              !.password = password,
                                              !.pc = "findUser"]]
    /\ UNCHANGED <<points, ledger, coupon, redemptions, now, debited>>
    /\ UNCHANGED social

login(r) ==
    LET q == req[r]
        u == q.user
    IN
    /\ q.kind = "login"
    /\ \/ /\ q.pc = "findUser"
          \* const user = await User.findOne({ email })
          /\ req' = [req EXCEPT ![r].me = users[u], ![r].userDoc = points[u],
                                ![r].loaded = points[u],
                                ![r].lastLogin = users[u].lastActive,
                                ![r].pc = "comparePassword"]
          /\ UNCHANGED <<points, ledger, coupon, redemptions, now, debited>>
          /\ UNCHANGED social
       \/ /\ q.pc = "comparePassword"
          \* await user.comparePassword(password); user.lastActive = new Date()
          /\ req' = IF q.password = "right"
                      THEN [req EXCEPT ![r].me.lastActive = now, ![r].pc = "save"]
                    ELSE Answer(r, 401, MsgInvalidCredentials)
          /\ UNCHANGED <<points, ledger, coupon, redemptions, now, debited>>
          /\ UNCHANGED social
       \/ /\ q.pc = "save"
          \* await user.save({ validateBeforeSave: false }), then
          \* today = new Date().toDateString(),
          \* lastLogin = user.lastActive.toDateString(), if (lastLogin !== today)
          /\ users' = [users EXCEPT ![u].lastActive = q.me.lastActive]
          /\ req' = IF q.me.lastActive # now
                      THEN [req EXCEPT ![r].at = now, ![r].pc = "addPoints"]
                    ELSE [Answer(r, 200, MsgNone) EXCEPT ![r].at = now]
          /\ UNCHANGED <<points, ledger, coupon, redemptions, now, debited>>
          /\ UNCHANGED <<posts, attempts, clock, admitted>>
       \/ \* await user.addPoints(1, 'Daily login bonus'); the catch answers 500
          addPoints(r, DailyLoginPoints, 200, 500)

\* authenticateToken, validateCreateComment, then addComment starts
RequestComment(r, u, p) ==
    /\ req[r].kind = "idle"
    /\ req' = [req EXCEPT ![r] = [Idle EXCEPT !.kind = "addComment", !.user = u,
                                              !.post = p, !.pc = "findPost"]]
    /\ UNCHANGED <<points, ledger, coupon, redemptions, now, debited>>
    /\ UNCHANGED social

\* doc.isNew as a post('save') hook sees it: Mongoose clears isNew when it
\* sends the insert, before the post hooks run
IsNewInPostSave == FALSE

\* addComment for a top-level comment, with commentSchema.post('save')
addComment(r) ==
    LET q == req[r]
        u == q.user
    IN
    /\ q.kind = "addComment"
    /\ \/ /\ q.pc = "findPost"
          \* const post = await Post.findById(postId)
          /\ req' = IF q.post \in Posts
                      THEN [req EXCEPT ![r].postDoc = posts[q.post], ![r].pc = "create"]
                    ELSE Answer(r, 404, MsgPostNotFound)
          /\ UNCHANGED <<points, ledger, coupon, redemptions, now, debited>>
          /\ UNCHANGED social
       \/ /\ q.pc = "create"
          \* await Comment.create({...}): the insert, then the post('save') hook:
          \* if (doc.isNew && !doc.parentComment) { author = await User.findById }
          /\ req' = IF IsNewInPostSave
                      THEN [req EXCEPT ![r].pc = "findAuthor"]
                    ELSE Answer(r, 201, MsgNone)
          /\ UNCHANGED <<points, ledger, coupon, redemptions, now, debited>>
          /\ UNCHANGED social
       \/ /\ q.pc = "findAuthor"
          /\ req' = [req EXCEPT ![r].userDoc = points[u], ![r].loaded = points[u],
                                ![r].pc = "addPoints"]
          /\ UNCHANGED <<points, ledger, coupon, redemptions, now, debited>>
          /\ UNCHANGED social
       \/ \* await author.addPoints(1, 'Comment posted'); a ValidationError is
          \* answered 400
          addPoints(r, CommentPostedPoints, 201, 400)

NextEarn ==
    \/ \E r \in Conns, u \in Users, pw \in {"right", "wrong"} : RequestLogin(r, u, pw)
    \/ \E r \in Conns : login(r)
    \/ \E r \in Conns, u \in Users, p \in Posts \cup {NULL} : RequestComment(r, u, p)
    \/ \E r \in Conns : addComment(r)
    \/ \E r \in Conns : Respond(r)
    \/ Tick

SpecEarn == InitEarn /\ [][NextEarn]_vars

----------------------------------------------------------------------------
(* likePost and unlikePost with postSchema.methods.addLike and removeLike. *)
(* A Mongoose array that was pushed to is saved with $push; an array path  *)
(* that was assigned is saved whole with $set, and that save carries the   *)
(* document's version (__v) as a condition.  Both increment __v.           *)

InitLike ==
    /\ InitLedger({DefaultPoints})
    /\ InitSocial

\* authenticateToken, validateObjectId, then the handler starts
RequestLike(r, u, p, kind) ==
    /\ req[r].kind = "idle"
    /\ kind \in {"likePost", "unlikePost"}
    /\ kind = "likePost" /\ p \in Posts
         => points[posts[p].author] + PostLikedPoints <= MaxPoints
    /\ p \in Posts => posts[p].v < MaxVersion
    /\ req' = [req EXCEPT ![r] = [Idle EXCEPT !.kind = kind, !.user = u, !.post = p,
                                              !.pc = "findPost"]]
    /\ UNCHANGED <<points, ledger, coupon, redemptions, now, debited>>
    /\ UNCHANGED social

\* postSchema.methods.isLikedBy
isLikedBy(doc, u) == \E i \in DOMAIN doc.likes : doc.likes[i] = u

\* this.likes.filter(like => like.user.toString() !== userId.toString())
RECURSIVE Unliked(_, _)
Unliked(likes, u) ==
    IF likes = <<>> THEN <<>>
    ELSE (IF Head(likes) = u THEN <<>> ELSE <<Head(likes)>>) \o Unliked(Tail(likes), u)

likePost(r) ==
    LET q == req[r]
        u == q.user
        p == q.post
    IN
    /\ q.kind = "likePost"
    /\ \/ /\ q.pc = "findPost"
          \* const post = await Post.findById(id); post.addLike(userId):
          \* if (this.isLikedBy(userId)) throw; this.likes.push({user: userId})
          /\ req' = IF p \notin Posts THEN Answer(r, 404, MsgPostNotFound)
                    ELSE IF isLikedBy(posts[p], u)
                      THEN Caught(r, 400, MsgAlreadyLiked, MsgAlreadyLiked)
                    ELSE [req EXCEPT ![r].postDoc = posts[p], ![r].pc = "savePost"]
          /\ UNCHANGED <<points, ledger, coupon, redemptions, now, debited>>
          /\ UNCHANGED social
       \/ /\ q.pc = "savePost"
          \* await this.save(): $push of the new like, $inc of __v; then
          \* if (this.author.toString() !== userId.toString()) User.findById
          /\ posts' = [posts EXCEPT ![p].likes = Append(@, u), ![p].v = @ + 1]
          /\ req' = IF q.postDoc.author # u
                      THEN [req EXCEPT ![r].pc = "findAuthor"]
                    ELSE Answer(r, 200, MsgNone)
          /\ UNCHANGED <<points, ledger, coupon, redemptions, now, debited>>
          /\ UNCHANGED <<users, attempts, clock, admitted>>
       \/ /\ q.pc = "findAuthor"
          \* const author = await User.findById(this.author)
          /\ req' = [req EXCEPT ![r].userDoc = points[q.postDoc.author],
                                ![r].loaded = points[q.postDoc.author],
                                ![r].pc = "addPoints"]
          /\ UNCHANGED <<points, ledger, coupon, redemptions, now, debited>>
          /\ UNCHANGED social
       \/ \* await author.addPoints(2, 'Post liked'); the catch answers 500
          /\ p \in Posts
          /\ addPointsTo(r, posts[p].author, PostLikedPoints, 200, 500)

unlikePost(r) ==
    LET q == req[r]
        u == q.user
        p == q.post
    IN
    /\ q.kind = "unlikePost"
    /\ \/ /\ q.pc = "findPost"
          \* const post = await Post.findById(id); post.removeLike(userId):
          \* this.likes = this.likes.filter(...); same length: throw
          /\ req' = IF p \notin Posts THEN Answer(r, 404, MsgPostNotFound)
                    ELSE IF ~isLikedBy(posts[p], u)
                      THEN Caught(r, 400, MsgNotLiked, <<"Like", "not", "found">>)
                    ELSE [req EXCEPT ![r].postDoc =
                                        [posts[p] EXCEPT !.likes = Unliked(@, u)],
                                     ![r].pc = "savePost"]
          /\ UNCHANGED <<points, ledger, coupon, redemptions, now, debited>>
          /\ UNCHANGED social
       \/ /\ q.pc = "savePost"
          \* await this.save(): $set of likes where __v is the loaded one
          /\ IF posts[p].v # q.postDoc.v
             THEN /\ req' = Caught(r, 500, MsgFailed, MsgVersionError)
                  /\ UNCHANGED posts
             ELSE /\ posts' = [posts EXCEPT ![p].likes = q.postDoc.likes,
                                            ![p].v = @ + 1]
                  /\ req' = IF q.postDoc.author # u
                              THEN [req EXCEPT ![r].pc = "findAuthor"]
                            ELSE Answer(r, 200, MsgNone)
          /\ UNCHANGED <<points, ledger, coupon, redemptions, now, debited>>
          /\ UNCHANGED <<users, attempts, clock, admitted>>
       \/ /\ q.pc = "findAuthor"
          \* author = await User.findById(this.author);
          \* if (author && author.points >= 2) author.deductPoints(2, ...):
          \* this.points -= points
          /\ LET a == q.postDoc.author IN
             req' = IF points[a] >= PostUnlikePoints
                      THEN [req EXCEPT ![r].userDoc = points[a] - PostUnlikePoints,
                                       ![r].loaded = points[a],
                                       ![r].pc = "save"]
                    ELSE Answer(r, 200, MsgNone)
          /\ UNCHANGED <<points, ledger, coupon, redemptions, now, debited>>
          /\ UNCHANGED social
       \/ /\ q.pc = "save"
          \* deductPoints: await this.save()
          /\ points' = SavedPoints(q.postDoc.author, q.userDoc)
          /\ req' = [req EXCEPT ![r].pc = "log"]
          /\ UNCHANGED <<ledger, coupon, redemptions, now, debited>>
          /\ UNCHANGED social
       \/ /\ q.pc = "log"
          \* deductPoints: await PointsTransaction.create({...}); the catch
          \* answers 500
          /\ LET doc == NewTransaction(q.postDoc.author, PostUnlikePoints, "spent") IN
             /\ ledger' = Logged(doc)
             /\ req' = IF ValidTransaction(doc)
                         THEN Answer(r, 200, MsgNone)
                       ELSE Caught(r, 500, MsgFailed, MsgValidation("PointsTransaction"))
          /\ UNCHANGED <<points, coupon, redemptions, now, debited>>
          /\ UNCHANGED social

NextLike ==
    \/ \E r \in Conns, u \in Users, p \in Posts \cup {NULL}, k \in {"likePost", "unlikePost"} :
          RequestLike(r, u, p, k)
    \/ \E r \in Conns : likePost(r)
    \/ \E r \in Conns : unlikePost(r)
    \/ \E r \in Conns : Respond(r)

SpecLike == InitLike /\ [][NextLike]_vars

----------------------------------------------------------------------------
(* followUser and unfollowUser.  following and followers are Mongoose      *)
(* arrays: push() is saved with $push, pull() with $pullAll, and both       *)
(* increment the document's __v.  Whether the save of a pull carries __v    *)
(* as a condition depends on the Mongoose release; the model takes both.    *)

InitFollow ==
    /\ InitLedger({DefaultPoints})
    /\ InitSocial

\* authenticateToken, validateObjectId, then the handler starts
RequestFollow(r, u, t, kind) ==
    /\ req[r].kind = "idle"
    /\ kind \in {"followUser", "unfollowUser"}
    /\ kind = "followUser" => points[u] + FollowPoints <= MaxPoints
    /\ \A x \in Users : users[x].v < MaxVersion
    /\ req' = [req EXCEPT ![r] = [Idle EXCEPT !.kind = kind, !.user = u, !.target = t,
                                              !.pc = "findTarget"]]
    /\ UNCHANGED <<points, ledger, coupon, redemptions, now, debited>>
    /\ UNCHANGED social

\* currentUser.following.includes(userId)
includes(list, x) == \E i \in DOMAIN list : list[i] = x

\* The array after $pullAll of x
RECURSIVE Pulled(_, _)
Pulled(list, x) ==
    IF list = <<>> THEN <<>>
    ELSE (IF Head(list) = x THEN <<>> ELSE <<Head(list)>>) \o Pulled(Tail(list), x)

\* A user document as findById loads it
LoadedUser(u) == [points |-> points[u]] @@ users[u]

followUser(r) ==
    LET q == req[r]
        u == q.user
        t == q.target
        Same == UNCHANGED <<points, ledger, coupon, redemptions, now, debited>>
    IN
    /\ q.kind = "followUser"
    /\ \/ /\ q.pc = "findTarget"
          \* if (userId === currentUserId.toString()) 400;
          \* const userToFollow = await User.findById(userId)
          /\ req' = IF t = u THEN Answer(r, 400, MsgFollowSelf)
                    ELSE IF t \notin Users THEN Answer(r, 404, MsgUserNotFound)
                    ELSE [req EXCEPT ![r].other = LoadedUser(t), ![r].pc = "findMe"]
          /\ Same /\ UNCHANGED social
       \/ /\ q.pc = "findMe"
          \* const currentUser = await User.findById(currentUserId);
          \* if (currentUser.following.includes(userId)) 400; the two push()
          /\ req' = IF includes(users[u].following, t)
                      THEN Answer(r, 400, MsgAlreadyFollowing)
                    ELSE [req EXCEPT ![r].me = LoadedUser(u), ![r].pc = "saveMe"]
          /\ Same /\ UNCHANGED social
       \/ /\ q.pc = "saveMe"
          \* await currentUser.save()
          /\ users' = [users EXCEPT ![u].following = Append(@, t), ![u].v = @ + 1]
          /\ req' = [req EXCEPT ![r].pc = "saveOther"]
          /\ Same /\ UNCHANGED <<posts, attempts, clock, admitted>>
       \/ /\ q.pc = "saveOther"
          \* await userToFollow.save(); currentUser.addPoints(5, 'follow'):
          \* this.points += points
          /\ users' = [users EXCEPT ![t].followers = Append(@, u), ![t].v = @ + 1]
          /\ req' = [req EXCEPT ![r].userDoc = q.me.points, ![r].loaded = q.me.points,
                                ![r].pc = "grantMe"]
          /\ Same /\ UNCHANGED <<posts, attempts, clock, admitted>>
       \/ /\ q.pc = "grantMe"
          \* addPoints: await this.save()
          /\ points' = SavedPoints(u, q.userDoc + FollowPoints)
          /\ req' = [req EXCEPT ![r].userDoc = q.userDoc + FollowPoints,
                                ![r].pc = "logMe"]
          /\ UNCHANGED <<ledger, coupon, redemptions, now, debited>>
          /\ UNCHANGED social
       \/ /\ q.pc = "logMe"
          \* addPoints: await PointsTransaction.create({...}); when it returns,
          \* userToFollow.addPoints(10, 'followed'): this.points += points
          /\ LET doc == NewTransaction(u, FollowPoints, "earned") IN
             /\ ledger' = Logged(doc)
             /\ req' = IF ValidTransaction(doc)
                         THEN [req EXCEPT ![r].pc = "grantOther"]
                       ELSE Caught(r, 500, MsgFailed, MsgValidation("PointsTransaction"))
          /\ UNCHANGED <<points, coupon, redemptions, now, debited>>
          /\ UNCHANGED social
       \/ /\ q.pc = "grantOther"
          /\ points' = SavedPoints(t, q.other.points + FollowedPoints)
          /\ req' = [req EXCEPT ![r].pc = "logOther"]
          /\ UNCHANGED <<ledger, coupon, redemptions, now, debited>>
          /\ UNCHANGED social
       \/ /\ q.pc = "logOther"
          \* addPoints: await PointsTransaction.create({...}); when it returns,
          \* the handler's own PointsTransaction.create({user, amount, ...}),
          \* which has neither points nor balanceAfter
          /\ LET doc == NewTransaction(t, FollowedPoints, "earned") IN
             /\ ledger' = Logged(doc)
             /\ req' = Caught(r, 500, MsgFailed, MsgValidation("PointsTransaction"))
          /\ UNCHANGED <<points, coupon, redemptions, now, debited>>
          /\ UNCHANGED social

unfollowUser(r) ==
    LET q == req[r]
        u == q.user
        t == q.target
        Same == UNCHANGED <<points, ledger, coupon, redemptions, now, debited>>
    IN
    /\ q.kind = "unfollowUser"
    /\ \/ /\ q.pc = "findTarget"
          /\ req' = IF t = u THEN Answer(r, 400, MsgUnfollowSelf)
                    ELSE IF t \notin Users THEN Answer(r, 404, MsgUserNotFound)
                    ELSE [req EXCEPT ![r].other = LoadedUser(t), ![r].pc = "findMe"]
          /\ Same /\ UNCHANGED social
       \/ /\ q.pc = "findMe"
          \* if (!currentUser.following.includes(userId)) 400; the two pull()
          /\ req' = IF ~includes(users[u].following, t)
                      THEN Answer(r, 400, MsgNotFollowing)
                    ELSE [req EXCEPT ![r].me = LoadedUser(u), ![r].pc = "saveMe"]
          /\ Same /\ UNCHANGED social
       \/ /\ q.pc = "saveMe"
          \* await currentUser.save(): $pullAll, or a VersionError when the
          \* save is conditioned on __v and __v has moved
          /\ \/ /\ users' = [users EXCEPT ![u].following = Pulled(@, t), ![u].v = @ + 1]
                /\ req' = [req EXCEPT ![r].pc = "saveOther"]
             \/ /\ users[u].v # q.me.v
                /\ req' = Caught(r, 500, MsgFailed, MsgVersionError)
                /\ UNCHANGED users
          /\ Same /\ UNCHANGED <<posts, attempts, clock, admitted>>
       \/ /\ q.pc = "saveOther"
          \* await userToUnfollow.save()
          /\ \/ /\ users' = [users EXCEPT ![t].followers = Pulled(@, u), ![t].v = @ + 1]
                /\ req' = Answer(r, 200, MsgNone)
             \/ /\ users[t].v # q.other.v
                /\ req' = Caught(r, 500, MsgFailed, MsgVersionError)
                /\ UNCHANGED users
          /\ Same /\ UNCHANGED <<posts, attempts, clock, admitted>>

NextFollow ==
    \/ \E r \in Conns, u \in Users, t \in Users \cup {NULL},
          k \in {"followUser", "unfollowUser"} : RequestFollow(r, u, t, k)
    \/ \E r \in Conns : followUser(r)
    \/ \E r \in Conns : unfollowUser(r)
    \/ \E r \in Conns : Respond(r)

SpecFollow == InitFollow /\ [][NextFollow]_vars

----------------------------------------------------------------------------
(* Vocabulary of the properties *)

Quiescent == \A r \in Conns : req[r].pc \in {"idle", "done"}

RecordsFor(c) == {i \in 1..Len(redemptions) : redemptions[i].coupon = c}

SignedAmount(e) == IF e.type \in {"earned", "bonus"} THEN e.points ELSE 0 - e.points

RECURSIVE SumFrom(_, _)
SumFrom(u, i) ==
    IF i > Len(ledger) THEN 0
    ELSE (IF ledger[i].user = u THEN SignedAmount(ledger[i]) ELSE 0) + SumFrom(u, i + 1)

LedgerSum(u) == SumFrom(u, 1)

RedeemDone(r) == req[r].kind = "redeemCoupon" /\ req[r].pc = "done"

\* The redeem passed every check of redeemBy and reached the record's create()
ReachedCreate(r) ==
    /\ RedeemDone(r)
    /\ req[r].couponDoc # <<>>
    /\ req[r].thrown \notin {MsgAlready(1), MsgAlready(2), MsgInsufficientRedeem}

Cost(r) == coupon[req[r].coupon].pointsCost

Max(a, b) == IF a >= b THEN a ELSE b

\* r1 and r2 arrived together: neither had read anything when the other came
Together(r1, r2) == r1 # r2 /\ (r1 \in req[r2].with \/ r2 \in req[r1].with)

SameAccount(r1, r2) ==
    /\ RedeemDone(r1) /\ RedeemDone(r2) /\ Together(r1, r2)
    /\ req[r1].user = req[r2].user

----------------------------------------------------------------------------
\* C1: once every redeemCoupon request has completed (also those that failed
\* part-way), each account owns as many Redemption records as redemption
\* debits were written to its balance.
C1_RecordsMatchDebits ==
    Quiescent => \A u \in Users : Cardinality(RecordsOf(u)) = debited[u]

C1_Witness ==
    /\ Quiescent
    /\ \E r \in Conns :
          /\ ReachedCreate(r)
          /\ req[r].thrown = MsgValidation("CouponRedemption")
          /\ req[r].loaded >= Cost(r)

\* C3: between operations every account's balance equals the sum of the signed
\* amounts of its ledger entries.
C3_Conservation ==
    Quiescent => \A u \in Users : points[u] = LedgerSum(u)

\* C4: two redeem requests of one account that arrive together, each coupon
\* affordable alone but not both, never both succeed; and when two such
\* requests both succeed the balance has gone down by both costs.
C4_NoDoubleSpend ==
    \A r1, r2 \in Conns :
        SameAccount(r1, r2) =>
            LET b == Max(req[r1].loaded, req[r2].loaded) IN
            /\ (Cost(r1) <= b /\ Cost(r2) <= b /\ Cost(r1) + Cost(r2) > b)
                  => ~(req[r1].status = 200 /\ req[r2].status = 200)
            /\ (req[r1].status = 200 /\ req[r2].status = 200)
                  => points[req[r1].user] = b - Cost(r1) - Cost(r2)

C4_Witness ==
    \E r1, r2 \in Conns :
        /\ SameAccount(r1, r2)
        /\ ReachedCreate(r1) /\ ReachedCreate(r2)
        /\ Cost(r1) <= req[r1].loaded /\ Cost(r2) <= req[r2].loaded
        /\ Cost(r1) + Cost(r2) > Max(req[r1].loaded, req[r2].loaded)

\* C5: an account never holds more than one Redemption record of a coupon
\* whose usageLimit.perUser is 1, whatever the interleaving of its requests.
C5_PerUserCap ==
    \A u \in Users, c \in Coupons :
        coupon[c].perUser = 1 => countDocuments(c, u) <= 1

C5_Witness ==
    \E r1, r2 \in Conns :
        /\ SameAccount(r1, r2)
        /\ req[r1].coupon = req[r2].coupon
        /\ coupon[req[r1].coupon].perUser = 1
        /\ ReachedCreate(r1) /\ ReachedCreate(r2)

\* C6: two accounts with enough points redeem together a coupon whose
\* usageLimit.total is 1: exactly one succeeds, the other is rejected because
\* the cap is reached.
C6_GlobalCapOutcome ==
    \A r1, r2 \in Conns :
        ( /\ RedeemDone(r1) /\ RedeemDone(r2) /\ Together(r1, r2)
          /\ req[r1].user # req[r2].user
          /\ req[r1].coupon = req[r2].coupon
          /\ LET cd == coupon[req[r1].coupon] IN
                /\ "total" \in DOMAIN cd /\ cd.total = 1
                /\ cd.isActive /\ now <= cd.validUntil
                /\ req[r1].loaded >= cd.pointsCost
                /\ req[r2].loaded >= cd.pointsCost )
        => \E a, b \in {r1, r2} :
               /\ a # b
               /\ req[a].status = 200
               /\ req[b].status = 400 /\ req[b].thrown = MsgNotValid

\* C7: a coupon with a usageLimit.total never counts, nor has, more
\* redemptions than that total.
C7_GlobalCap ==
    \A c \in Coupons :
        "total" \in DOMAIN coupon[c] =>
            /\ coupon[c].totalRedemptions <= coupon[c].total
            /\ Cardinality(RecordsFor(c)) <= coupon[c].total

C7_Witness ==
    \E r1, r2 \in Conns :
        /\ r1 # r2
        /\ ReachedCreate(r1) /\ ReachedCreate(r2)
        /\ req[r1].coupon = req[r2].coupon
        /\ "total" \in DOMAIN coupon[req[r1].coupon]

\* C8: once an account has redeemed a coupon whose usageLimit.perUser is 1
\* (a first request that was eligible and could pay), a later redeem of that
\* coupon by the account, made while the coupon is still valid, is rejected
\* as already redeemed and writes neither a record nor a debit.
C8_SecondRedeemRejected ==
    \A r1, r2 \in Conns :
        ( /\ RedeemDone(r1) /\ RedeemDone(r2)
          /\ r1 \in req[r2].after
          /\ req[r1].user = req[r2].user /\ req[r1].coupon = req[r2].coupon
          /\ ReachedCreate(r1) /\ req[r1].loaded >= Cost(r1)
          /\ LET cd == coupon[req[r1].coupon] IN
                cd.perUser = 1 /\ cd.isActive /\ now <= cd.validUntil )
        => /\ req[r2].status = 400
           /\ req[r2].thrown = MsgAlready(1)
           /\ req[r2].red = 0

\* C9: deductPoints of an amount larger than the balance its user document
\* holds throws 'Insufficient points' and changes neither the stored balance
\* nor the ledger; and no stored balance is ever negative.
C9_DebitRejected ==
    /\ [](\A u \in Users : points[u] >= 0)
    /\ [][\A r \in Conns :
            ( /\ req[r].kind = "deductPoints" /\ req[r].pc = "call"
              /\ req[r].amount > req[r].userDoc
              /\ req'[r] # req[r] )
            => /\ req'[r].pc = "done"
               /\ req'[r].thrown = MsgInsufficient
               /\ points' = points
               /\ ledger' = ledger]_vars

C9_Witness ==
    \E r \in Conns :
        /\ req[r].kind = "deductPoints" /\ req[r].pc = "done"
        /\ req[r].amount > req[r].loaded
        /\ req[r].thrown = MsgInsufficient
        /\ points[req[r].user] = req[r].loaded

\* C10: a redeem of a valid coupon of cost c by an account that holds b >= c
\* and has not used up its per-user allowance succeeds: it answers a
\* Redemption with pointsSpent = c and status active, and when it ran alone
\* the balance is b - c and the coupon counts one redemption more.
C10_RedeemSucceeds ==
    \A r \in Conns :
        (ReachedCreate(r) /\ req[r].loaded >= Cost(r)) =>
            /\ req[r].status = 200
            /\ req[r].red \in 1..Len(redemptions)
            /\ redemptions[req[r].red].pointsSpent = Cost(r)
            /\ redemptions[req[r].red].status = "active"
            /\ (req[r].with = {} /\ \A o \in Conns \ {r} : req[o].kind = "idle") =>
                   /\ points[req[r].user] = req[r].loaded - Cost(r)
                   /\ coupon[req[r].coupon].totalRedemptions = req[r].loadedTotal + 1

\* C11: a redeem whose user document holds fewer points than the coupon costs
\* is answered with the insufficient-points rejection (400 and redeemBy's
\* message), and no step of it changes a balance, the ledger, the Redemption
\* records or a coupon.
C11_InsufficientRejected ==
    [][\A r \in Conns :
          ( /\ req[r].kind = "redeemCoupon"
            /\ req[r].pc = "countDocuments"
            /\ countDocuments(req[r].coupon, req[r].user) < req[r].couponDoc.perUser
            /\ req[r].userDoc < req[r].couponDoc.pointsCost
            /\ req'[r] # req[r] )
          => /\ req'[r].pc = "done"
             /\ req'[r].status = 400
             /\ req'[r].error = MsgInsufficientRedeem
             /\ UNCHANGED <<points, ledger, redemptions, coupon>>]_vars

\* C12: a redeem of a missing or inactive coupon is answered 404, one outside
\* the validity window or at the global cap 400 'not currently valid', one at
\* the per-user cap 400 'already redeemed'; and no step of such a request
\* changes a balance, the ledger, the Redemption records or a coupon.
C12_RejectionChangesNothing ==
    [][\A r \in Conns :
          (req[r].kind = "redeemCoupon" /\ req'[r] # req[r]) =>
            LET c == req[r].coupon
                cd == req[r].couponDoc
                Rejected(status, msg) ==
                    /\ req'[r].pc = "done"
                    /\ req'[r].status = status
                    /\ req'[r].error = msg
            IN
            /\ req[r].pc \in {"findUser", "findCoupon", "countDocuments"}
                  => UNCHANGED <<points, ledger, redemptions, coupon>>
            /\ (req[r].pc = "findCoupon" /\ c \notin Coupons)
                  => Rejected(404, MsgCouponNotFound)
            /\ (req[r].pc = "findCoupon" /\ c \in Coupons)
                  => /\ ~coupon[c].isActive => Rejected(404, MsgCouponNotFound)
                     /\ ( /\ coupon[c].isActive
                          /\ \/ now < coupon[c].validFrom
                             \/ now > coupon[c].validUntil
                             \/ /\ "total" \in DOMAIN coupon[c]
                                /\ coupon[c].totalRedemptions >= coupon[c].total )
                           => Rejected(400, MsgNotValid)
            /\ ( /\ req[r].pc = "countDocuments"
                 /\ countDocuments(c, req[r].user) >= cd.perUser )
                  => Rejected(400, MsgAlready(cd.perUser))]_vars

\* One request was rejected at the per-user cap, another named no coupon
C12_Witness ==
    \E r1, r2 \in Conns :
        /\ RedeemDone(r1) /\ RedeemDone(r2)
        /\ req[r1].status = 400 /\ req[r1].thrown = MsgAlready(1)
        /\ req[r2].status = 404 /\ req[r2].coupon = NULL

\* C13: the stored status of a Redemption never leaves used or expired: no
\* step takes it from used to expired, from expired to used, or back to
\* active.
C13_TerminalStatus ==
    [][\A i \in 1..Len(redemptions) :
          redemptions[i].status \in {"used", "expired"}
              => redemptions'[i].status = redemptions[i].status]_vars

\* C14: once a redemption is stored as used, a markRedemptionAsUsed that looks
\* its code up is refused as already used, not as not found, and leaves the
\* stored redemptions as they are.
C14_SecondUseRefused ==
    [][\A r \in Conns :
          ( /\ req[r].kind = "markRedemptionAsUsed" /\ req[r].pc = "find"
            /\ req'[r] # req[r]
            /\ \E i \in 1..Len(redemptions) :
                  /\ redemptions[i].redemptionCode = req[r].code
                  /\ redemptions[i].status = "used" )
          => /\ req'[r].pc = "done"
             /\ req'[r].status \notin {200, 404}
             /\ req'[r].error # MsgActiveNotFound
             /\ redemptions' = redemptions]_vars

\* C15: a fetch of an active redemption past its expiresAt answers it as
\* expired and its save stores it as expired; and a markRedemptionAsUsed that
\* looks up a redemption past its expiresAt is answered 'Redemption has
\* expired' and goes no further.
C15_LazyExpiration ==
    [][\A r \in Conns : req'[r] # req[r] =>
          /\ ( /\ req[r].kind \in {"getRedemptionByCode", "getMyRedemptions"}
               /\ req[r].pc = "find" )
             => \A i \in DOMAIN req'[r].docs :
                   (redemptions[i].status = "active" /\ now > redemptions[i].expiresAt)
                       => /\ req'[r].docs[i].status = "expired"
                          /\ i \in DOMAIN req'[r].mods
          /\ ( /\ req[r].kind \in {"getRedemptionByCode", "getMyRedemptions"}
               /\ req[r].pc = "saving" )
             => \A i \in DOMAIN req[r].mods \ DOMAIN req'[r].mods :
                   redemptions'[i].status = "expired"
          /\ ( /\ req[r].kind = "markRedemptionAsUsed" /\ req[r].pc = "find"
               /\ \E i \in 1..Len(redemptions) :
                     /\ redemptions[i].redemptionCode = req[r].code
                     /\ redemptions[i].status # "used"
                     /\ now > redemptions[i].expiresAt )
             => /\ req'[r].pc = "done"
                /\ req'[r].status = 400
                /\ req'[r].error = MsgExpired]_vars

\* C16: a markRedemptionAsUsed that finds an active redemption with
\* now > expiresAt is answered 'Redemption has expired' and stores the
\* redemption as expired (at once, or by a save it leaves in flight).
C16_ExpiredOnUse ==
    [][\A r \in Conns :
          ( /\ req[r].kind = "markRedemptionAsUsed" /\ req[r].pc = "find"
            /\ req'[r] # req[r] )
          => \A i \in FindActive(req[r].code) :
                now > redemptions[i].expiresAt
                  => /\ req'[r].status = 400
                     /\ req'[r].error = MsgExpired
                     /\ \/ redemptions'[i].status = "expired"
                        \/ i \in DOMAIN req'[r].mods]_vars

\* C17 (contradicted by the code): canBeRedeemedBy answers not-ok exactly
\* when one of the four causes holds (coupon inactive, now outside the
\* validity window, global cap reached, the account's count at its per-user
\* cap), and two answers given for different single causes carry different
\* reasons. The code answers 'Coupon is not currently valid' for the first
\* three alike.
C17_DistinctReasons ==
    LET Answered == {r \in Conns : req[r].kind = "canBeRedeemedBy" /\ req[r].pc = "done"}
    IN
    /\ \A r \in Answered : req[r].result.canRedeem = FALSE <=> req[r].cause # {}
    /\ \A r1, r2 \in Answered :
          /\ Cardinality(req[r1].cause) = 1
          /\ Cardinality(req[r2].cause) = 1
          /\ req[r1].cause # req[r2].cause
          => req[r1].result.reason # req[r2].result.reason

\* C18: the list getAvailableForUser returns for an account with balance b
\* holds exactly the coupons that were valid at the moment the method read
\* the clock, that the account can still redeem (its count below the
\* per-user cap, the global cap not reached) and that cost at most b; each
\* coupon once, featured ones first and ascending cost within each group.
C18_AvailableList ==
    \A r \in Conns :
        req[r].kind = "getAvailableCoupons" /\ req[r].pc = "done" /\ req[r].status = 200
        => LET l == req[r].result
               u == req[r].user
           IN
           /\ {l[i] : i \in DOMAIN l}
                = {c \in Coupons : /\ isCurrentlyValid(coupon[c], req[r].at)
                                   /\ countDocuments(c, u) < coupon[c].perUser
                                   /\ coupon[c].pointsCost <= req[r].loaded}
           /\ \A i, j \in DOMAIN l : i < j =>
                 /\ l[i] # l[j]
                 /\ (coupon[l[j]].isFeatured => coupon[l[i]].isFeatured)
                 /\ (coupon[l[i]].isFeatured = coupon[l[j]].isFeatured
                       => coupon[l[i]].pointsCost <= coupon[l[j]].pointsCost)

\* C18 witness: a list of two coupons whose featured, dearer coupon stands
\* first, answered to an account for which a redemption record exists
C18_Witness ==
    \E r \in Conns :
        /\ req[r].kind = "getAvailableCoupons" /\ req[r].pc = "done" /\ req[r].status = 200
        /\ Len(req[r].result) = 2
        /\ coupon[req[r].result[1]].pointsCost > coupon[req[r].result[2]].pointsCost
        /\ countDocuments("c1", req[r].user) = 1

\* C19: once the redeems in flight are over (concurrent redeems of one
\* coupon from different accounts included), each coupon's
\* stats.totalRedemptions is the number of redemption records stored for it
\* and its stats.uniqueUsers the number of accounts holding such a record.
C19_StatsMatchRecords ==
    Quiescent =>
        \A c \in Coupons :
            /\ coupon[c].totalRedemptions = Cardinality(RecordsFor(c))
            /\ coupon[c].uniqueUsers
                 = Cardinality({redemptions[i].user : i \in RecordsFor(c)})

\* C19 witness: two accounts redeemed one coupon together, each redeem got as
\* far as the record's create(), and nothing is in flight any more
C19_Witness ==
    /\ Quiescent
    /\ \E r1, r2 \in Conns :
          /\ Together(r1, r2)
          /\ req[r1].user # req[r2].user
          /\ req[r1].coupon = req[r2].coupon
          /\ ReachedCreate(r1) /\ ReachedCreate(r2)
          /\ Cost(r1) <= req[r1].loaded /\ Cost(r2) <= req[r2].loaded

\* C20 (contradicted by the code): the step of a grant (addPoints) or debit
\* (deductPoints) that writes the ledger appends one entry, and that entry's
\* balanceAfter is the account's balance right after it. The code hands
\* create() an entry without balanceAfter, and nothing is appended.
C20_BalanceSnapshot ==
    [][\A r \in Conns :
          ( /\ req[r].kind \in {"addPoints", "deductPoints"}
            /\ req[r].pc = "log"
            /\ req'[r] # req[r] )
          => /\ Len(ledger') = Len(ledger) + 1
             /\ "balanceAfter" \in DOMAIN ledger'[Len(ledger')]
             /\ ledger'[Len(ledger')].balanceAfter = points'[req[r].user]]_vars

\* The requests of ip that authRateLimit passed on between minutes a and b
AdmittedBetween(ip, a, b) ==
    {i \in DOMAIN admitted[ip] : a <= admitted[ip][i].at /\ admitted[ip][i].at <= b}

\* C25: authRateLimit(maxAttempts, windowMinutes) passes at most maxAttempts
\* requests of one IP to the handler within the windowMinutes that start at
\* the IP's first counted attempt; a further request inside the window is
\* answered 429; a request after the window has elapsed is passed and
\* counted as attempt 1 of a new window.
C25_RateLimit ==
    /\ [](\A ip \in IPs : \A i \in DOMAIN admitted[ip] :
            admitted[ip][i].count = 1
            => Cardinality(AdmittedBetween(ip, admitted[ip][i].at,
                                           admitted[ip][i].at + WindowMinutes))
                 <= MaxAttempts)
    /\ [][\A r \in Conns :
            req[r].kind = "idle" /\ req'[r].kind = "auth"
            => LET ip == req'[r].ip
                   first == attempts[ip].firstAttempt
               IN
               /\ ( /\ attempts[ip].count >= MaxAttempts
                    /\ clock <= first + WindowMinutes )
                  => req'[r].status = 429 /\ admitted' = admitted
               /\ ( /\ attempts[ip].count > 0
                    /\ clock > first + WindowMinutes )
                  => /\ req'[r].status # 429
                     /\ attempts'[ip] = [count |-> 1, firstAttempt |-> clock]]_vars

\* C25 witness: an address was refused with 429 inside its window and, the
\* window over, passed again as attempt 1
C25_Witness ==
    \E ip \in IPs :
        /\ \E r \in Conns : req[r].kind = "auth" /\ req[r].ip = ip /\ req[r].status = 429
        /\ \E i \in DOMAIN admitted[ip] :
              i > MaxAttempts /\ admitted[ip][i].count = 1

\* The points a request added to the account it loaded
Granted(r) == req[r].userDoc - req[r].loaded

\* A login that passed the password check and is answered
LoggedIn(r) == req[r].kind = "login" /\ req[r].pc = "done" /\ req[r].password = "right"

\* C21 (contradicted by the code): each earning event raises the earning
\* account's balance by exactly its fixed amount: a stored top-level comment
\* by 3, a login on a later day than the previous login by 1.
C21_FixedAmounts ==
    \A r \in Conns :
        /\ ( req[r].kind = "addComment" /\ req[r].pc = "done" /\ req[r].status = 201
             => Granted(r) = 3 )
        /\ ( LoggedIn(r) /\ req[r].lastLogin < req[r].at
             => Granted(r) = 1 )

\* C22 (contradicted by the code): a login whose previous login was on an
\* earlier calendar day is granted the daily bonus of 1 point, and a login on
\* the day of the previous login is granted nothing.
C22_DailyLogin ==
    \A r \in Conns :
        LoggedIn(r) =>
            /\ req[r].lastLogin < req[r].at => Granted(r) = DailyLoginPoints
            /\ req[r].lastLogin = req[r].at => Granted(r) = 0

\* C23 (contradicted by the code): a redeem that passed every check with
\* enough points stores a Redemption record that carries a redemption code,
\* whatever code was generated (no validation error, no duplicate-key
\* error), and no two stored records share a code.
C23_RedemptionCode ==
    /\ \A r \in Conns :
          (ReachedCreate(r) /\ req[r].loaded >= Cost(r)) =>
              /\ req[r].thrown \notin {MsgValidation("CouponRedemption"), MsgDuplicateKey}
              /\ req[r].red \in 1..Len(redemptions)
              /\ "redemptionCode" \in DOMAIN redemptions[req[r].red]
    /\ \A i, j \in 1..Len(redemptions) :
          i # j => redemptions[i].redemptionCode # redemptions[j].redemptionCode

\* C24 (contradicted by the code): a redeem that passed every check with
\* enough points stores a Redemption record whose expiresAt is its
\* redemption time plus the 30-day TTL, whatever the coupon's validUntil,
\* and every stored record has an expiresAt.
C24_ExpiresAt ==
    /\ \A r \in Conns :
          (ReachedCreate(r) /\ req[r].loaded >= Cost(r)) =>
              /\ req[r].red \in 1..Len(redemptions)
              /\ "expiresAt" \in DOMAIN redemptions[req[r].red]
              /\ redemptions[req[r].red].expiresAt
                   = redemptions[req[r].red].redeemedAt + RedemptionTTL
    /\ \A i \in 1..Len(redemptions) : "expiresAt" \in DOMAIN redemptions[i]

\* C26 (contradicted by the code): while an addPoints and a deductPoints for
\* one account are both under way, each from its own loaded copy of the
\* account, the save of either moves the stored balance by exactly its own
\* amount (up for the grant, down for the debit), so that both updates show
\* in the final balance.
C26_NoLostUpdate ==
    [][\A r, o \in Conns :
          ( /\ {req[r].kind, req[o].kind} = {"addPoints", "deductPoints"}
            /\ req[r].user = req[o].user
            /\ req[r].pc = "save" /\ req'[r].pc = "log" )
          => points'[req[r].user]
               = points[req[r].user]
                 + (IF req[r].kind = "addPoints" THEN req[r].amount
                    ELSE 0 - req[r].amount)]_vars

\* The users other than the author who are in a post's likes list
Likers(p) == {posts[p].likes[i] : i \in DOMAIN posts[p].likes} \ {posts[p].author}

\* C27 (contradicted by the code): whenever no request is under way, the
\* points the author holds from likes on the post are 2 for each user other
\* than the author who likes it now: a like that was taken back has left
\* nothing.
C27_LikePointsMatchLikes ==
    Quiescent =>
        \A p \in Posts :
            points[posts[p].author] - DefaultPoints = 2 * Cardinality(Likers(p))

\* C28 (contradicted by the code): a post's likes list holds no user twice,
\* and the author holds at most one like grant for each user who likes the
\* post, also after two likePost requests of one user ran together.
C28_LikedOnce ==
    \A p \in Posts :
        /\ \A i, j \in DOMAIN posts[p].likes :
              i # j => posts[p].likes[i] # posts[p].likes[j]
        /\ Quiescent =>
              points[posts[p].author] - DefaultPoints
                 <= PostLikedPoints * Cardinality(Likers(p))

\* C29 (contradicted by the code): whenever no followUser or unfollowUser
\* request is under way, a is in b's followers exactly when b is in a's
\* following, and nobody follows themself; and a followUser request for a
\* user the caller already follows is answered 400 and grants nothing.
C29_FollowSymmetry ==
    /\ [](Quiescent =>
            /\ \A a, b \in Users :
                  includes(users[b].followers, a) <=> includes(users[a].following, b)
            /\ \A a \in Users : ~includes(users[a].following, a))
    /\ [][\A r \in Conns :
            ( /\ req[r].kind = "followUser" /\ req[r].pc = "findMe"
              /\ includes(users[req[r].user].following, req[r].target)
              /\ req'[r] # req[r] )
            => /\ req'[r].pc = "done"
               /\ req'[r].status = 400
               /\ points' = points]_vars

============================================================================
